---- MODULE Spec2Model ----
(***************************************************************************)
(* Decorated graph-state simulator of graphix                              *)
(* (src/graphix/graphsim/basegraphstate.py, class BaseGraphState).         *)
(*                                                                         *)
(* A decorated graph is a record                                           *)
(*   [nodes, edges, hollow, loop, sign]                                    *)
(* nodes  : set of node ids                                                *)
(* edges  : set of two-element sets of nodes (undirected, simple)          *)
(* hollow, loop, sign : node -> BOOLEAN  (self.nodes[n]["hollow"] ...)     *)
(*                                                                         *)
(* Every method of the class is a pure operator on such records; the       *)
(* actions of the state machine apply one method to the current graph.     *)
(***************************************************************************)
EXTENDS Integers, FiniteSets, Sequences, TLC

\* Number of nodes add_nodes_from creates (ids 0 .. NumNodes-1).
NumNodes == 3

AllNodes == 0 .. (NumNodes - 1)

\* The values a caller passes as `choice`: 0 and 1 are valid, 2 is not.
Choices == {0, 1, 2}

VARIABLES
    nodes,   \* self.nodes (ids)
    edges,   \* self.edges
    hollow,  \* self.nodes[n]["hollow"]
    loop,    \* self.nodes[n]["loop"]
    sign,    \* self.nodes[n]["sign"]
    pre,     \* the graph as it was when the last call started
    last     \* the last call: method, arguments, return value, raised or not

vars == <<nodes, edges, hollow, loop, sign, pre, last>>

Graph == [nodes |-> nodes, edges |-> edges, hollow |-> hollow,
          loop |-> loop, sign |-> sign]

-----------------------------------------------------------------------------
(* Graph store (abstract methods of the class; the backend's behaviour).   *)

neighbors(g, n) == {m \in g.nodes : {n, m} \in g.edges}

\* remove_node that leaves the edges of the removed node in place.
M_remove_node_keeps_edges(g, n) ==
    [nodes  |-> g.nodes \ {n},
     edges  |-> g.edges,
     hollow |-> [m \in g.nodes \ {n} |-> g.hollow[m]],
     loop   |-> [m \in g.nodes \ {n} |-> g.loop[m]],
     sign   |-> [m \in g.nodes \ {n} |-> g.sign[m]]]

remove_node(g, n) ==
    [nodes  |-> g.nodes \ {n},
     edges  |-> {e \in g.edges : n \notin e},
     hollow |-> [m \in g.nodes \ {n} |-> g.hollow[m]],
     loop   |-> [m \in g.nodes \ {n} |-> g.loop[m]],
     sign   |-> [m \in g.nodes \ {n} |-> g.sign[m]]]

add_edge(g, a, b) == [g EXCEPT !.edges = @ \cup {{a, b}}]

\* local_complement that only adds the missing edges.
M_local_complement_add_only(g, n) ==
    LET nb  == neighbors(g, n)
        tog == {{a, b} : a \in nb, b \in nb} \ {{a} : a \in nb}
    IN  [g EXCEPT !.edges = @ \cup tog]

\* local_complement that toggles the edges among n and its neighbours, the
\* edges at n included.
M_local_complement_closed(g, n) ==
    LET nb  == neighbors(g, n) \cup {n}
        tog == {{a, b} : a \in nb, b \in nb} \ {{a} : a \in nb}
    IN  [g EXCEPT !.edges = (@ \ tog) \cup (tog \ @)]

\* Toggle every edge between two distinct neighbours of n.
local_complement(g, n) ==
    LET nb  == neighbors(g, n)
        tog == {{a, b} : a \in nb, b \in nb} \ {{a} : a \in nb}
    IN  [g EXCEPT !.edges = (@ \ tog) \cup (tog \ @)]

\* The neighbour an iteration yields first among S.  The backend fixes the
\* order; every order is allowed for here: the iteration is taken to start at
\* `pick` and run cyclically through the ids, so each element of S is first
\* for some pick.
First(S, pick) ==
    CHOOSE m \in S : \A k \in S :
        ((m - pick + NumNodes) % NumNodes) <= ((k - pick + NumNodes) % NumNodes)

-----------------------------------------------------------------------------
(* Decoration primitives.                                                  *)

flip_fill(g, node) == [g EXCEPT !.hollow[node] = ~@]

flip_sign(g, node) == [g EXCEPT !.sign[node] = ~@]

\* advance that clears a loop without toggling the sign.
M_advance_no_sign(g, node) == [g EXCEPT !.loop[node] = ~@]

advance(g, node) ==
    IF g.loop[node]
    THEN flip_sign([g EXCEPT !.loop[node] = FALSE], node)
    ELSE [g EXCEPT !.loop[node] = TRUE]

\* for i in S: self.flip_sign(i)
RECURSIVE flip_sign_each(_, _)
flip_sign_each(g, S) ==
    IF S = {} THEN g
    ELSE LET i == CHOOSE x \in S : TRUE
         IN  flip_sign_each(flip_sign(g, i), S \ {i})

\* for i in S: self.advance(i)
RECURSIVE advance_each(_, _)
advance_each(g, S) ==
    IF S = {} THEN g
    ELSE LET i == CHOOSE x \in S : TRUE
         IN  advance_each(advance(g, i), S \ {i})

-----------------------------------------------------------------------------
(* Single-qubit gates on the decorated graph.                              *)

h(g, node) == flip_fill(g, node)

\* s whose hollow, loopless branch leaves out the sign fan-out.
M_s_no_sign_fan(g, node) ==
    IF g.hollow[node]
    THEN IF g.loop[node]
         THEN LET g1 == flip_fill(g, node)
                  g2 == [g1 EXCEPT !.loop[node] = FALSE]
                  g3 == local_complement(g2, node)
              IN  advance_each(g3, neighbors(g3, node))
         ELSE LET g1 == local_complement(g, node)
              IN  advance_each(g1, neighbors(g1, node))
    ELSE advance(g, node)

s(g, node) ==
    IF g.hollow[node]
    THEN IF g.loop[node]
         THEN LET g1 == flip_fill(g, node)
                  g2 == [g1 EXCEPT !.loop[node] = FALSE]
                  g3 == local_complement(g2, node)
              IN  advance_each(g3, neighbors(g3, node))
         ELSE LET g1 == local_complement(g, node)
                  g2 == advance_each(g1, neighbors(g1, node))
              IN  IF g2.sign[node]
                  THEN flip_sign_each(g2, neighbors(g2, node))
                  ELSE g2
    ELSE advance(g, node)

z(g, node) ==
    IF g.hollow[node]
    THEN LET g1 == flip_sign_each(g, neighbors(g, node))
         IN  IF g1.loop[node] THEN flip_sign(g1, node) ELSE g1
    ELSE flip_sign(g, node)

-----------------------------------------------------------------------------
(* Local Clifford tracker (graphix.clifford): the 24 single-qubit          *)
(* Clifford operators up to phase, by index; a @ b is the operator product *)
(* (b acts first), .hsz the factors of an operator, leftmost acting last.  *)

Clifford_I == 0
Clifford_Z == 3
Clifford_S == 4
Clifford_H == 6

CLIFFORD_MUL ==
    << <<0, 1, 2, 3, 4, 5, 6, 7, 8, 9, 10, 11, 12, 13, 14, 15, 16, 17, 18, 19, 20, 21, 22, 23>>,
       <<1, 0, 3, 2, 19, 21, 8, 12, 6, 22, 17, 13, 7, 11, 15, 14, 23, 10, 20, 4, 18, 5, 9, 16>>,
       <<2, 3, 0, 1, 21, 19, 17, 23, 10, 14, 8, 18, 16, 20, 9, 22, 12, 6, 11, 5, 13, 4, 15, 7>>,
       <<3, 2, 1, 0, 5, 4, 10, 16, 17, 15, 6, 20, 23, 18, 22, 9, 7, 8, 13, 21, 11, 19, 14, 12>>,
       <<4, 21, 19, 5, 3, 0, 9, 13, 14, 10, 15, 12, 20, 16, 17, 6, 18, 22, 7, 1, 23, 2, 8, 11>>,
       <<5, 19, 21, 4, 0, 3, 15, 18, 22, 6, 9, 23, 11, 7, 8, 10, 13, 14, 16, 2, 12, 1, 17, 20>>,
       <<6, 10, 17, 8, 7, 12, 0, 4, 3, 11, 1, 9, 5, 15, 18, 13, 19, 2, 14, 16, 22, 23, 20, 21>>,
       <<7, 23, 16, 12, 8, 6, 11, 15, 18, 1, 13, 5, 22, 19, 2, 0, 14, 20, 4, 10, 21, 17, 3, 9>>,
       <<8, 17, 10, 6, 12, 7, 1, 19, 2, 13, 0, 22, 21, 14, 20, 11, 4, 3, 15, 23, 9, 16, 18, 5>>,
       <<9, 15, 22, 14, 13, 20, 4, 3, 5, 12, 21, 10, 0, 6, 7, 16, 1, 19, 17, 18, 8, 11, 23, 2>>,
       <<10, 6, 8, 17, 16, 23, 3, 5, 0, 20, 2, 15, 4, 9, 13, 18, 21, 1, 22, 7, 14, 12, 11, 19>>,
       <<11, 13, 20, 18, 15, 22, 7, 8, 12, 5, 23, 1, 6, 0, 4, 19, 10, 16, 2, 14, 3, 9, 21, 17>>,
       <<12, 16, 23, 7, 6, 8, 13, 14, 20, 0, 11, 21, 9, 4, 3, 1, 15, 18, 19, 17, 5, 10, 2, 22>>,
       <<13, 11, 18, 20, 14, 9, 12, 6, 7, 21, 16, 0, 8, 1, 19, 4, 17, 23, 3, 15, 2, 22, 5, 10>>,
       <<14, 22, 15, 9, 20, 13, 21, 1, 19, 16, 4, 8, 2, 17, 23, 12, 3, 5, 6, 11, 10, 18, 7, 0>>,
       <<15, 9, 14, 22, 18, 11, 5, 0, 4, 23, 19, 6, 3, 10, 16, 7, 2, 21, 8, 13, 17, 20, 12, 1>>,
       <<16, 12, 7, 23, 17, 10, 20, 9, 13, 2, 18, 4, 14, 21, 1, 3, 22, 11, 5, 6, 19, 8, 0, 15>>,
       <<17, 8, 6, 10, 23, 16, 2, 21, 1, 18, 3, 14, 19, 22, 11, 20, 5, 0, 9, 12, 15, 7, 13, 4>>,
       <<18, 20, 13, 11, 22, 15, 23, 10, 16, 19, 7, 3, 17, 2, 21, 5, 8, 12, 0, 9, 1, 14, 4, 6>>,
       <<19, 5, 4, 21, 2, 1, 22, 11, 15, 17, 14, 7, 18, 23, 10, 8, 20, 9, 12, 0, 16, 3, 6, 13>>,
       <<20, 18, 11, 13, 9, 14, 16, 17, 23, 4, 12, 2, 10, 3, 5, 21, 6, 7, 1, 22, 0, 15, 19, 8>>,
       <<21, 4, 5, 19, 1, 2, 14, 20, 9, 8, 22, 16, 13, 12, 6, 17, 11, 15, 23, 3, 7, 0, 10, 18>>,
       <<22, 14, 9, 15, 11, 18, 19, 2, 21, 7, 5, 17, 1, 8, 12, 23, 0, 4, 10, 20, 6, 13, 16, 3>>,
       <<23, 7, 12, 16, 10, 17, 18, 22, 11, 3, 20, 19, 15, 5, 0, 2, 9, 13, 21, 8, 4, 6, 1, 14>> >>
CLIFFORD_HSZ_DECOMPOSITION ==
    << <<0>>,
       <<6, 3, 6>>,
       <<6, 3, 6, 3>>,
       <<3>>,
       <<4>>,
       <<4, 3>>,
       <<6>>,
       <<6, 4>>,
       <<6, 3>>,
       <<4, 6>>,
       <<3, 6>>,
       <<6, 4, 6>>,
       <<6, 4, 3>>,
       <<4, 6, 4>>,
       <<4, 6, 3>>,
       <<4, 3, 6>>,
       <<3, 6, 4>>,
       <<3, 6, 3>>,
       <<6, 4, 6, 3>>,
       <<6, 3, 6, 4>>,
       <<4, 6, 4, 3>>,
       <<4, 6, 3, 6>>,
       <<4, 3, 6, 3>>,
       <<3, 6, 4, 3>> >>

\* (Clifford(a) @ Clifford(b)).value
CliffordMatMul(a, b) == CLIFFORD_MUL[a + 1][b + 1]

\* Clifford(vop).hsz
hsz(vop) == CLIFFORD_HSZ_DECOMPOSITION[vop + 1]

\* get_vops with the test of the sign flag inverted.
M_get_vops_sign_inverted(g) ==
    [i \in g.nodes |->
        LET v0 == Clifford_I
            v1 == IF ~g.sign[i]  THEN CliffordMatMul(Clifford_Z, v0) ELSE v0
            v2 == IF g.loop[i]   THEN CliffordMatMul(Clifford_S, v1) ELSE v1
            v3 == IF g.hollow[i] THEN CliffordMatMul(Clifford_H, v2) ELSE v2
        IN  v3]

get_vops(g) ==
    [i \in g.nodes |->
        LET v0 == Clifford_I
            v1 == IF g.sign[i]   THEN CliffordMatMul(Clifford_Z, v0) ELSE v0
            v2 == IF g.loop[i]   THEN CliffordMatMul(Clifford_S, v1) ELSE v1
            v3 == IF g.hollow[i] THEN CliffordMatMul(Clifford_H, v2) ELSE v2
        IN  v3]

\* for lc in reversed(w): apply the gate lc names to node
RECURSIVE apply_hsz(_, _, _)
apply_hsz(g, node, w) ==
    IF w = <<>> THEN g
    ELSE LET lc == w[Len(w)]
             g1 == IF lc = Clifford_Z THEN z(g, node)
                   ELSE IF lc = Clifford_H THEN h(g, node)
                   ELSE IF lc = Clifford_S THEN s(g, node)
                   ELSE g
         IN  apply_hsz(g1, node, SubSeq(w, 1, Len(w) - 1))

\* for node, vop in vops.items(), the nodes in S still to come (ascending ids)
RECURSIVE apply_vops_from(_, _, _)
apply_vops_from(g, vops, S) ==
    IF S = {} THEN g
    ELSE LET node == CHOOSE n \in S : \A m \in S : n <= m
         IN  apply_vops_from(apply_hsz(g, node, hsz(vops[node])), vops, S \ {node})

apply_vops(g, vops) == apply_vops_from(g, vops, DOMAIN vops)

-----------------------------------------------------------------------------
(* Results of the methods that can raise or return a value:                *)
(* g the graph the call leaves behind, err whether it raised ValueError,   *)
(* ret the returned integer (-1: None).                                    *)

Ok(g)        == [g |-> g, err |-> FALSE, ret |-> -1]
Return(g, v) == [g |-> g, err |-> FALSE, ret |-> v]
Raise(g)     == [g |-> g, err |-> TRUE,  ret |-> -1]

-----------------------------------------------------------------------------
(* Equivalence rewrites E1, E2.                                            *)

\* equivalent_graph_e1 without advance on the neighbours.
M_e1_no_advance(g, node) ==
    IF ~g.loop[node] THEN Raise(g)
    ELSE LET g1 == flip_fill(g, node)
             g2 == local_complement(g1, node)
             g4 == flip_sign(g2, node)
         IN  Ok(IF g4.sign[node]
                THEN flip_sign_each(g4, neighbors(g4, node))
                ELSE g4)

\* equivalent_graph_e1 without the sign toggle on the node itself.
M_e1_no_sign_flip(g, node) ==
    IF ~g.loop[node] THEN Raise(g)
    ELSE LET g1 == flip_fill(g, node)
             g2 == local_complement(g1, node)
             g3 == advance_each(g2, neighbors(g2, node))
         IN  Ok(IF g3.sign[node]
                THEN flip_sign_each(g3, neighbors(g3, node))
                ELSE g3)

equivalent_graph_e1(g, node) ==
    IF ~g.loop[node] THEN Raise(g)
    ELSE LET g1 == flip_fill(g, node)
             g2 == local_complement(g1, node)
             g3 == advance_each(g2, neighbors(g2, node))
             g4 == flip_sign(g3, node)
         IN  Ok(IF g4.sign[node]
                THEN flip_sign_each(g4, neighbors(g4, node))
                ELSE g4)

\* equivalent_graph_e2 that reads the sign of node2 only when it uses it, after
\* the fan-out of node1 may have toggled it.
M_e2_sign_read_late(g, node1, node2) ==
    IF {node1, node2} \notin g.edges THEN Raise(g)
    ELSE IF g.loop[node1] \/ g.loop[node2] THEN Raise(g)
    ELSE LET sg1 == g.sign[node1]
             g1  == flip_fill(g, node1)
             g2  == flip_fill(g1, node2)
             g3  == local_complement(g2, node1)
             g4  == local_complement(g3, node2)
             g5  == local_complement(g4, node1)
             g6  == flip_sign_each(g5, neighbors(g5, node1) \cap neighbors(g5, node2))
             g7  == IF sg1
                    THEN flip_sign_each(flip_sign(g6, node1), neighbors(g6, node1))
                    ELSE g6
             g8  == IF g7.sign[node2]
                    THEN flip_sign_each(flip_sign(g7, node2), neighbors(g7, node2))
                    ELSE g7
         IN  Ok(g8)

\* equivalent_graph_e2 with the loop check made after the two fills are flipped.
M_e2_late_check(g, node1, node2) ==
    IF {node1, node2} \notin g.edges THEN Raise(g)
    ELSE LET sg1 == g.sign[node1]
             sg2 == g.sign[node2]
             g1  == flip_fill(g, node1)
             g2  == flip_fill(g1, node2)
             g3  == local_complement(g2, node1)
             g4  == local_complement(g3, node2)
             g5  == local_complement(g4, node1)
             g6  == flip_sign_each(g5, neighbors(g5, node1) \cap neighbors(g5, node2))
             g7  == IF sg1
                    THEN flip_sign_each(flip_sign(g6, node1), neighbors(g6, node1))
                    ELSE g6
             g8  == IF sg2
                    THEN flip_sign_each(flip_sign(g7, node2), neighbors(g7, node2))
                    ELSE g7
         IN  IF g.loop[node1] \/ g.loop[node2] THEN Raise(g2) ELSE Ok(g8)

equivalent_graph_e2(g, node1, node2) ==
    IF {node1, node2} \notin g.edges THEN Raise(g)
    ELSE IF g.loop[node1] \/ g.loop[node2] THEN Raise(g)
    ELSE LET sg1 == g.sign[node1]
             sg2 == g.sign[node2]
             g1  == flip_fill(g, node1)
             g2  == flip_fill(g1, node2)
             g3  == local_complement(g2, node1)
             g4  == local_complement(g3, node2)
             g5  == local_complement(g4, node1)
             g6  == flip_sign_each(g5, neighbors(g5, node1) \cap neighbors(g5, node2))
             g7  == IF sg1
                    THEN flip_sign_each(flip_sign(g6, node1), neighbors(g6, node1))
                    ELSE g6
             g8  == IF sg2
                    THEN flip_sign_each(flip_sign(g7, node2), neighbors(g7, node2))
                    ELSE g7
         IN  Ok(g8)

-----------------------------------------------------------------------------
(* Node filling.                                                           *)

\* `return 0` after a rewrite: reached only if the rewrite r did not raise.
Return0(r) == IF r.err THEN r ELSE Return(r.g, 0)

\* The all-neighbours-looped branch ending after the rewrite on the neighbour,
\* without equivalent_graph_e1 on the node itself.
M_ThenE1_skipped(r1, node) == Return0(r1)

\* equivalent_graph_e1(node) after the rewrite r1, then `return 0`; a
\* ValueError of either rewrite ends the call where it is raised.
ThenE1(r1, node) ==
    IF r1.err THEN r1 ELSE Return0(equivalent_graph_e1(r1.g, node))

\* equivalent_fill_node whose neighbour test on a filled node is inverted.
M_fill_solid_test_inverted(g, node, pick) ==
    IF g.hollow[node]
    THEN IF g.loop[node]
         THEN Return0(equivalent_graph_e1(g, node))
         ELSE IF neighbors(g, node) = {} THEN Return(g, 1)
         ELSE LET loopless == {i \in neighbors(g, node) : ~g.loop[i]}
              IN  IF loopless # {}
                  THEN Return0(equivalent_graph_e2(g, node, First(loopless, pick)))
                  ELSE ThenE1(equivalent_graph_e1(g, First(neighbors(g, node), pick)), node)
    ELSE IF neighbors(g, node) # {} THEN Return(g, 2)
    ELSE Return(g, 0)

\* equivalent_fill_node with the two isolated statuses exchanged.
M_fill_status_swapped(g, node, pick) ==
    IF g.hollow[node]
    THEN IF g.loop[node]
         THEN Return0(equivalent_graph_e1(g, node))
         ELSE IF neighbors(g, node) = {} THEN Return(g, 2)
         ELSE LET loopless == {i \in neighbors(g, node) : ~g.loop[i]}
              IN  IF loopless # {}
                  THEN Return0(equivalent_graph_e2(g, node, First(loopless, pick)))
                  ELSE ThenE1(equivalent_graph_e1(g, First(neighbors(g, node), pick)), node)
    ELSE IF neighbors(g, node) = {} THEN Return(g, 1)
    ELSE Return(g, 0)

equivalent_fill_node(g, node, pick) ==
    IF g.hollow[node]
    THEN IF g.loop[node]
         THEN Return0(equivalent_graph_e1(g, node))
         ELSE IF neighbors(g, node) = {} THEN Return(g, 1)
         ELSE LET loopless == {i \in neighbors(g, node) : ~g.loop[i]}
              IN  IF loopless # {}
                  THEN Return0(equivalent_graph_e2(g, node, First(loopless, pick)))
                  ELSE ThenE1(equivalent_graph_e1(g, First(neighbors(g, node), pick)), node)
    ELSE IF neighbors(g, node) = {} THEN Return(g, 2)
    ELSE Return(g, 0)

-----------------------------------------------------------------------------
(* Measurements.                                                           *)

\* measure_z with the test on the fill status inverted.
M_measure_z_inverted(f, node, choice) ==
    LET isolated == f.ret
        g1 == IF choice # 0
              THEN flip_sign_each(f.g, neighbors(f.g, node))
              ELSE f.g
        result == IF isolated # 0 THEN choice
                  ELSE IF g1.sign[node] THEN 1 ELSE 0
    IN  IF f.err THEN f
        ELSE Return(remove_node(g1, node), result)

\* measure_z that toggles the neighbours' signs whatever the choice.
M_measure_z_always_flips(f, node, choice) ==
    LET isolated == f.ret
        g1 == flip_sign_each(f.g, neighbors(f.g, node))
        result == IF isolated = 0 THEN choice
                  ELSE IF g1.sign[node] THEN 1 ELSE 0
    IN  IF f.err THEN f
        ELSE Return(remove_node(g1, node), result)

\* measure_z from line 604 on: f is what equivalent_fill_node(node) left and
\* returned (isolated = f.ret).
measure_z_filled(f, node, choice) ==
    LET isolated == f.ret
        g1 == IF choice # 0
              THEN flip_sign_each(f.g, neighbors(f.g, node))
              ELSE f.g
        result == IF isolated = 0 THEN choice
                  ELSE IF g1.sign[node] THEN 1 ELSE 0
    IN  IF f.err THEN f
        ELSE Return(remove_node(g1, node), result)

measure_z(g, node, choice, pick) ==
    IF choice \notin {0, 1} THEN Raise(g)
    ELSE measure_z_filled(equivalent_fill_node(g, node, pick), node, choice)

\* measure_x whose isolated shortcut returns without removing the node.
M_measure_x_keeps_node(g, node, choice, pick) ==
    IF choice \notin {0, 1} THEN Raise(g)
    ELSE IF neighbors(g, node) = {}
    THEN LET choice_ == IF g.hollow[node] \/ g.loop[node] THEN choice
                        ELSE IF g.sign[node] THEN 1
                        ELSE 0
         IN  Return(g, choice_)
    ELSE measure_z(h(g, node), node, choice, pick)

\* measure_x whose isolated shortcut returns choice only for a node that is
\* hollow and has a loop.
M_measure_x_and(g, node, choice, pick) ==
    IF choice \notin {0, 1} THEN Raise(g)
    ELSE IF neighbors(g, node) = {}
    THEN LET choice_ == IF g.hollow[node] /\ g.loop[node] THEN choice
                        ELSE IF g.sign[node] THEN 1
                        ELSE 0
         IN  Return(remove_node(g, node), choice_)
    ELSE measure_z(h(g, node), node, choice, pick)

measure_x(g, node, choice, pick) ==
    IF choice \notin {0, 1} THEN Raise(g)
    ELSE IF neighbors(g, node) = {}
    THEN LET choice_ == IF g.hollow[node] \/ g.loop[node] THEN choice
                        ELSE IF g.sign[node] THEN 1
                        ELSE 0
         IN  Return(remove_node(g, node), choice_)
    ELSE measure_z(h(g, node), node, choice, pick)

\* measure_y that leaves the check of choice to measure_z.
M_measure_y_unchecked(g, node, choice, pick) ==
    measure_z(h(z(s(g, node), node), node), node, choice, pick)

measure_y(g, node, choice, pick) ==
    IF choice \notin {0, 1} THEN Raise(g)
    ELSE measure_z(h(z(s(g, node), node), node), node, choice, pick)

-----------------------------------------------------------------------------
(* Dense state vector (graphix.sim.statevec.Statevec).                     *)
(* An amplitude is a Gaussian integer <<re, im>>; a state on the qubits Q  *)
(* maps each basis state, the set of qubits that read 1, to its amplitude. *)
(* Vectors are kept unnormalised: H is applied as [[1,1],[1,-1]], so a     *)
(* vector stands for the state it is proportional to.                      *)

CAdd(a, b) == <<a[1] + b[1], a[2] + b[2]>>
CNeg(a)    == <<-a[1], -a[2]>>
CMul(a, b) == <<a[1] * b[1] - a[2] * b[2], a[1] * b[2] + a[2] * b[1]>>
CTimesI(a) == <<-a[2], a[1]>>
CZero      == <<0, 0>>

\* Statevec(nqubit): every qubit in |+>.
Statevec(Q) == [b \in SUBSET Q |-> <<1, 0>>]

\* gstate.entangle((i, j)): CZ between qubits i and j.
entangle(psi, i, j) ==
    [b \in DOMAIN psi |-> IF i \in b /\ j \in b THEN CNeg(psi[b]) ELSE psi[b]]

\* gstate.evolve_single(op, i) for op one of Ops.Z, Ops.S, Ops.H.
evolve_single(psi, op, i) ==
    [b \in DOMAIN psi |->
        IF op = "Z" THEN (IF i \in b THEN CNeg(psi[b]) ELSE psi[b])
        ELSE IF op = "S" THEN (IF i \in b THEN CTimesI(psi[b]) ELSE psi[b])
        ELSE IF i \in b THEN CAdd(psi[b \ {i}], CNeg(psi[b]))
        ELSE CAdd(psi[b], psi[b \cup {i}])]

\* for i, j in self.edges: gstate.entangle(...)
RECURSIVE entangle_edges(_, _)
entangle_edges(psi, E) ==
    IF E = {} THEN psi
    ELSE LET e == CHOOSE x \in E : TRUE
             i == CHOOSE x \in e : TRUE
             j == CHOOSE x \in e : x # i
         IN  entangle_edges(entangle(psi, i, j), E \ {e})

\* for i in range(nqubit): if flag[i]: gstate.evolve_single(op, i)
RECURSIVE evolve_each(_, _, _)
evolve_each(psi, op, S) ==
    IF S = {} THEN psi
    ELSE LET i == CHOOSE n \in S : \A m \in S : n <= m
         IN  evolve_each(evolve_single(psi, op, i), op, S \ {i})

\* A qubit is named by its node: the export's index of a node is its place
\* in the node list, the same for every export of one node set.
to_statevector(g) ==
    LET g0 == entangle_edges(Statevec(g.nodes), g.edges)
        g1 == evolve_each(g0, "Z", {n \in g.nodes : g.sign[n]})
        g2 == evolve_each(g1, "S", {n \in g.nodes : g.loop[n]})
    IN  evolve_each(g2, "H", {n \in g.nodes : g.hollow[n]})

\* Two vectors stand for the same state up to a global phase: they are
\* proportional by a non-zero factor.
EqualUpToPhase(v, w) ==
    /\ DOMAIN v = DOMAIN w
    /\ \E p \in DOMAIN v :
          /\ v[p] # CZero
          /\ w[p] # CZero
          /\ \A b \in DOMAIN v : CMul(v[b], w[p]) = CMul(w[b], v[p])

-----------------------------------------------------------------------------
(* The state machine.                                                      *)

\* Placeholder for an argument or a return value a call does not have.
NoArg == 0 - 1

\* No call is in progress: the caller holds no pending result.
IdleCall == [op |-> "idle", node |-> NoArg, node2 |-> NoArg, choice |-> NoArg,
             pick |-> NoArg, ret |-> -1, err |-> FALSE]

Idle == last = IdleCall

\* One call of a method: the graph it leaves, and what the caller gets back.
Call(op, node, node2, choice, pick, r) ==
    /\ Idle
    /\ nodes'  = r.g.nodes
    /\ edges'  = r.g.edges
    /\ hollow' = r.g.hollow
    /\ loop'   = r.g.loop
    /\ sign'   = r.g.sign
    /\ pre'    = Graph
    /\ last'   = [op |-> op, node |-> node, node2 |-> node2, choice |-> choice,
                  pick |-> pick, ret |-> r.ret, err |-> r.err]

\* After construction and add_nodes_from(range(NumNodes)): no edge, no flag.
Init ==
    /\ nodes  = AllNodes
    /\ edges  = {}
    /\ hollow = [n \in AllNodes |-> FALSE]
    /\ loop   = [n \in AllNodes |-> FALSE]
    /\ sign   = [n \in AllNodes |-> FALSE]
    /\ pre    = [nodes |-> AllNodes, edges |-> {},
                 hollow |-> [n \in AllNodes |-> FALSE],
                 loop   |-> [n \in AllNodes |-> FALSE],
                 sign   |-> [n \in AllNodes |-> FALSE]]
    /\ last   = IdleCall

\* The caller takes the result (or the exception) of the last call; the next
\* call starts from the graph that call left behind.
Resume ==
    /\ ~Idle
    /\ last' = IdleCall
    /\ pre'  = Graph
    /\ UNCHANGED <<nodes, edges, hollow, loop, sign>>

AddEdge ==
    \E a \in nodes, b \in nodes :
        /\ a < b
        /\ {a, b} \notin edges
        /\ Call("add_edge", a, b, NoArg, NoArg, Ok(add_edge(Graph, a, b)))

GateH == \E n \in nodes : Call("h", n, NoArg, NoArg, NoArg, Ok(h(Graph, n)))

GateS == \E n \in nodes : Call("s", n, NoArg, NoArg, NoArg, Ok(s(Graph, n)))

GateZ == \E n \in nodes : Call("z", n, NoArg, NoArg, NoArg, Ok(z(Graph, n)))

LocalComplement ==
    \E n \in nodes :
        Call("local_complement", n, NoArg, NoArg, NoArg, Ok(local_complement(Graph, n)))

E1 == \E n \in nodes :
        Call("e1", n, NoArg, NoArg, NoArg, equivalent_graph_e1(Graph, n))

E2 == \E n \in nodes, m \in nodes :
        Call("e2", n, m, NoArg, NoArg, equivalent_graph_e2(Graph, n, m))

\* The iteration orders a call on node n can meet: which other node comes first.
Picks(n) == IF nodes = {n} THEN {n} ELSE AllNodes \ {n}

FillNode ==
    \E n \in nodes : \E p \in Picks(n) :
        Call("fill", n, NoArg, NoArg, p, equivalent_fill_node(Graph, n, p))

\* self.apply_vops(self.get_vops())
ApplyOwnVops ==
    Call("apply_vops", NoArg, NoArg, NoArg, NoArg, Ok(apply_vops(Graph, get_vops(Graph))))

MeasureX ==
    \E n \in nodes, c \in Choices : \E p \in Picks(n) :
        Call("measure_x", n, NoArg, c, p, measure_x(Graph, n, c, p))

MeasureY ==
    \E n \in nodes, c \in Choices : \E p \in Picks(n) :
        Call("measure_y", n, NoArg, c, p, measure_y(Graph, n, c, p))

MeasureZ ==
    \E n \in nodes, c \in Choices : \E p \in Picks(n) :
        Call("measure_z", n, NoArg, c, p, measure_z(Graph, n, c, p))

Next ==
    \/ AddEdge
    \/ GateH
    \/ GateS
    \/ GateZ
    \/ LocalComplement
    \/ E1
    \/ E2
    \/ FillNode
    \/ ApplyOwnVops
    \/ MeasureX
    \/ MeasureY
    \/ MeasureZ
    \/ Resume

Spec == Init /\ [][Next]_vars

-----------------------------------------------------------------------------
(* Properties.                                                             *)

\* The last call was `op` and it returned (did not raise).
Returned(op) == last.op = op /\ ~last.err

Measurements == {"measure_x", "measure_y", "measure_z"}

Valid(choice) == choice \in {0, 1}

Bit(b) == IF b THEN 1 ELSE 0

\* C1: E1 on a node with a loop, and E2 on an adjacent loopless pair, leave the
\* exported state unchanged up to a global phase.
T_C1 ==
    /\ (Returned("e1") /\ pre.loop[last.node])
          => EqualUpToPhase(to_statevector(pre), to_statevector(Graph))
    /\ (Returned("e2") /\ {last.node, last.node2} \in pre.edges
            /\ ~pre.loop[last.node] /\ ~pre.loop[last.node2])
          => EqualUpToPhase(to_statevector(pre), to_statevector(Graph))

\* E2 has run on two signed nodes of a triangle and has rewritten the graph.
W_C1 ==
    /\ Returned("e2")
    /\ Cardinality(pre.edges) = 3
    /\ pre.sign[last.node] /\ pre.sign[last.node2]
    /\ Graph # pre

\* C2: measure_z on a node with at least one neighbour returns the caller's
\* choice, 0 for choice 0 and 1 for choice 1, whatever the flags.
T_C2 ==
    (last.op = "measure_z" /\ Valid(last.choice) /\ neighbors(pre, last.node) # {})
        => (~last.err /\ last.ret = last.choice)

\* measure_z(n, 1) has returned 1 on a hollow, signed node with a neighbour.
W_C2 ==
    /\ Returned("measure_z")
    /\ last.choice = 1 /\ last.ret = 1
    /\ neighbors(pre, last.node) # {}
    /\ pre.hollow[last.node] /\ pre.sign[last.node]

\* C3 (as claimed): measure_z on a node without neighbours returns the node's
\* sign flag, whatever its flags and whatever the choice.
CE_C3 ==
    (last.op = "measure_z" /\ Valid(last.choice) /\ neighbors(pre, last.node) = {})
        => (~last.err /\ last.ret = Bit(pre.sign[last.node]))

\* C4: a measurement that returns has removed the node and its edges, and
\* nothing but the node.
T_C4 ==
    (last.op \in Measurements /\ Valid(last.choice) /\ ~last.err)
        => /\ last.node \notin nodes
           /\ \A e \in edges : last.node \notin e
           /\ nodes = pre.nodes \ {last.node}

\* measure_x has taken its isolated-node shortcut while other nodes are joined.
W_C4 ==
    /\ Returned("measure_x")
    /\ neighbors(pre, last.node) = {}
    /\ pre.edges # {}
    /\ last.node \notin nodes

\* C5: E1 on a loopless node, and E2 on a pair that is not adjacent or has a
\* loop, raise and leave the graph as it was.
T_C5 ==
    /\ (last.op = "e1" /\ ~pre.loop[last.node])
          => (last.err /\ Graph = pre)
    /\ (last.op = "e2" /\ ({last.node, last.node2} \notin pre.edges
                             \/ pre.loop[last.node] \/ pre.loop[last.node2]))
          => (last.err /\ Graph = pre)

\* E2 has been refused on an adjacent pair because the second node has a loop.
W_C5 ==
    /\ last.op = "e2" /\ last.err
    /\ {last.node, last.node2} \in pre.edges
    /\ ~pre.loop[last.node] /\ pre.loop[last.node2]

\* C6: a measurement called with a choice other than 0 or 1 raises and leaves
\* the graph as it was: no gate applied, no node removed.
T_C6 ==
    (last.op \in Measurements /\ ~Valid(last.choice))
        => (last.err /\ Graph = pre)

\* measure_y has been refused on a hollow node with a neighbour, where its
\* basis change would have rewritten the graph.
W_C6 ==
    /\ last.op = "measure_y" /\ last.err
    /\ ~Valid(last.choice)
    /\ pre.hollow[last.node] /\ neighbors(pre, last.node) # {}

\* C7: a second local_complement(n) undoes the first: edges restored, flags
\* untouched.
T_C7 ==
    Returned("local_complement")
        => /\ local_complement(Graph, last.node) = pre
           /\ hollow = pre.hollow /\ loop = pre.loop /\ sign = pre.sign

\* local_complement has removed an edge between two neighbours.
W_C7 ==
    /\ Returned("local_complement")
    /\ \E e \in pre.edges : e \notin edges

\* C8 (as claimed): apply_vops(get_vops()) leaves every flag unchanged.
CE_C8 ==
    Returned("apply_vops")
        => (hollow = pre.hollow /\ loop = pre.loop /\ sign = pre.sign)

NoFlag(g) == \A n \in g.nodes : ~g.hollow[n] /\ ~g.loop[n] /\ ~g.sign[n]

\* C8 (amended): apply_vops(get_vops()) leaves every flag unchanged on a graph
\* none of whose nodes has a flag set.
T_C8 ==
    (Returned("apply_vops") /\ NoFlag(pre)) => Graph = pre

\* apply_vops(get_vops()) has run on an undecorated graph with an edge.
W_C8 ==
    /\ Returned("apply_vops")
    /\ NoFlag(pre)
    /\ pre.edges # {}

\* C9: equivalent_fill_node on a hollow, loopless node without neighbours
\* returns 1 and leaves the graph as it was.
T_C9 ==
    (last.op = "fill" /\ pre.hollow[last.node] /\ ~pre.loop[last.node]
        /\ neighbors(pre, last.node) = {})
        => (~last.err /\ last.ret = 1 /\ Graph = pre)

\* equivalent_fill_node has returned 1 on a signed node beside an edge.
W_C9 ==
    /\ Returned("fill")
    /\ last.ret = 1
    /\ pre.sign[last.node]
    /\ pre.edges # {}

GateName(op) == IF op = "h" THEN "H" ELSE IF op = "s" THEN "S" ELSE "Z"

\* C10 (as claimed): a gate h, s or z on the decorated graph, then the export,
\* gives the state of the export followed by the gate H, S or Z on that qubit.
CE_C10 ==
    last.op \in {"h", "s", "z"}
        => EqualUpToPhase(evolve_single(to_statevector(pre), GateName(last.op), last.node),
                          to_statevector(Graph))

\* C11: s(n) on a hollow node without loop toggles every edge between two
\* distinct neighbours of n, advances every neighbour exactly once (loop
\* toggled, sign toggled if the loop was set), toggles the sign of every
\* neighbour once more when n's sign is set, and changes nothing else: n keeps
\* its flags and its incident edges.  On the path 0-1-2 with only node 1
\* hollow, s(1) joins 0 and 2 and sets loop on both.
T_C11 ==
    (last.op = "s" /\ pre.hollow[last.node] /\ ~pre.loop[last.node]) =>
        LET n  == last.node
            nb == {m \in pre.nodes : {n, m} \in pre.edges}
        IN  /\ nodes = pre.nodes
            /\ hollow = pre.hollow
            /\ \A a \in nodes : \A b \in nodes \ {a} :
                   ({a, b} \in edges) =
                       IF a \in nb /\ b \in nb THEN {a, b} \notin pre.edges
                                               ELSE {a, b} \in pre.edges
            /\ \A m \in nodes \ nb :
                   loop[m] = pre.loop[m] /\ sign[m] = pre.sign[m]
            /\ \A m \in nb :
                   /\ loop[m] = ~pre.loop[m]
                   /\ sign[m] = ((pre.sign[m] # pre.loop[m]) # pre.sign[n])
            /\ (/\ pre.edges = {{0, 1}, {1, 2}} /\ n = 1
                /\ \A m \in pre.nodes :
                       ~pre.loop[m] /\ ~pre.sign[m] /\ (pre.hollow[m] = (m = 1)))
               => {0, 2} \in edges /\ loop[0] /\ loop[2]

\* C11: s(n) ran on a hollow, loopless node with sign set that has two
\* neighbours, one of them with a loop.
W_C11 ==
    /\ last.op = "s" /\ pre.hollow[last.node] /\ ~pre.loop[last.node]
    /\ pre.sign[last.node]
    /\ \E a \in pre.nodes, b \in pre.nodes :
           /\ a # b /\ {last.node, a} \in pre.edges /\ {last.node, b} \in pre.edges
           /\ pre.loop[a] /\ ~pre.loop[b]

\* C12: measure_x(n, choice) on a node without neighbours returns choice when
\* n is hollow or has a loop, and otherwise 1 if n's sign is set and 0 if not;
\* it removes n and changes no flag and no edge of any other node.
T_C12 ==
    (Returned("measure_x") /\ \A e \in pre.edges : last.node \notin e) =>
        LET n == last.node
        IN  /\ last.ret = IF pre.hollow[n] \/ pre.loop[n] THEN last.choice
                          ELSE Bit(pre.sign[n])
            /\ nodes = pre.nodes \ {n}
            /\ edges = pre.edges
            /\ \A m \in nodes : /\ hollow[m] = pre.hollow[m]
                                /\ loop[m] = pre.loop[m]
                                /\ sign[m] = pre.sign[m]

\* C12: measure_x returned on an isolated node that is solid with a loop and
\* with sign set, with choice 0, while two other nodes are joined and flagged.
W_C12 ==
    /\ Returned("measure_x") /\ last.choice = 0
    /\ \A e \in pre.edges : last.node \notin e
    /\ ~pre.hollow[last.node] /\ pre.loop[last.node] /\ pre.sign[last.node]
    /\ edges # {} /\ \E m \in nodes : hollow[m] /\ sign[m]

\* C13 (as claimed): equivalent_fill_node(n) returns 0 only for a node with a
\* neighbour: on a node without neighbours it returns 1 if n is hollow and 2
\* if not, and whenever it returns 0 the node is filled and has at least one
\* neighbour after the call.
CE_C13 ==
    Returned("fill") =>
        LET n == last.node
        IN  /\ (\A e \in pre.edges : n \notin e)
                   => last.ret = IF pre.hollow[n] THEN 1 ELSE 2
            /\ last.ret = 0
                   => ~hollow[n] /\ \E m \in nodes : {n, m} \in edges

\* C14: after equivalent_fill_node(n) has returned 0 or 2, n is not hollow,
\* whichever branch ran; n is hollow after the call exactly when the status
\* is 1.
T_C14 ==
    Returned("fill") =>
        /\ last.ret \in {0, 2} => ~hollow[last.node]
        /\ hollow[last.node] <=> last.ret = 1

\* C14: equivalent_fill_node returned 0 on a hollow, loopless node whose
\* neighbours all have loops (E1 on the first neighbour, then E1 on n).
W_C14 ==
    /\ Returned("fill") /\ last.ret = 0
    /\ pre.hollow[last.node] /\ ~pre.loop[last.node]
    /\ \E m \in pre.nodes : {last.node, m} \in pre.edges
    /\ \A m \in pre.nodes : {last.node, m} \in pre.edges => pre.loop[m]

\* C15: in every reachable state every edge is an unordered pair of two
\* different nodes (no edge from a node to itself, whatever its loop flag),
\* both of them in the current node set.
T_C15 ==
    \A e \in edges : e \subseteq nodes /\ Cardinality(e) = 2

\* C15: a measurement has removed a node that had a loop and two neighbours,
\* and an edge is left among the remaining nodes, one of which has a loop.
W_C15 ==
    /\ last.op \in Measurements /\ ~last.err
    /\ pre.loop[last.node]
    /\ Cardinality({m \in pre.nodes : {last.node, m} \in pre.edges}) = 2
    /\ edges # {}
    /\ \E m \in nodes : loop[m]

\* C16: measure_z(n, 0) and measure_z(n, 1) run on two copies of one graph
\* leave the same nodes, edges, hollow and loop flags, and the two results
\* differ in the sign of exactly the nodes that are neighbours of n after
\* equivalent_fill_node(n).  (The state is the result of one of the two runs;
\* the other run is computed from the graph before the call, with the same
\* iteration order.)
T_C16 ==
    (Returned("measure_z") /\ Valid(last.choice)) =>
        LET n     == last.node
            other == measure_z(pre, n, 1 - last.choice, last.pick)
            fill  == equivalent_fill_node(pre, n, last.pick)
            post  == {m \in fill.g.nodes : {n, m} \in fill.g.edges}
        IN  /\ ~other.err
            /\ other.g.nodes = nodes
            /\ other.g.edges = edges
            /\ other.g.hollow = hollow
            /\ other.g.loop = loop
            /\ \A m \in nodes : (other.g.sign[m] # sign[m]) <=> m \in post

\* C16: measure_z returned on a hollow node with two neighbours, one of which
\* is no longer its neighbour once the node is filled.
W_C16 ==
    /\ Returned("measure_z") /\ Valid(last.choice)
    /\ pre.hollow[last.node]
    /\ LET n    == last.node
           fill == equivalent_fill_node(pre, n, last.pick)
       IN  /\ Cardinality({m \in pre.nodes : {n, m} \in pre.edges}) = 2
           /\ \E m \in pre.nodes : /\ {n, m} \in pre.edges
                                   /\ {n, m} \notin fill.g.edges

\* C17 (as claimed): there is a graph and a hollow node n in it whose
\* neighbour set before local_complement(n) differs from its neighbour set
\* after it.  (The graphs tried are the present nodes and flags with every
\* edge set over the present nodes, n made hollow.)
CE_C17 ==
    \E E \in SUBSET {e \in SUBSET nodes : Cardinality(e) = 2} :
        \E n \in nodes :
            LET g == [Graph EXCEPT !.edges = E, !.hollow[n] = TRUE]
            IN  neighbors(g, n) # neighbors(local_complement(g, n), n)

\* C17 (amended): in s(n) on a hollow node the neighbour set of n is the same
\* before and after local_complement(n), and the nodes that receive the
\* fan-out (the other nodes whose loop flag s has changed) are exactly that
\* set: reading it before or after the complementation gives the same nodes.
T_C17 ==
    (last.op = "s" /\ pre.hollow[last.node]) =>
        LET n      == last.node
            before == neighbors(pre, n)
            after  == neighbors(local_complement(pre, n), n)
        IN  /\ before = after
            /\ {m \in nodes \ {n} : loop[m] # pre.loop[m]} = before
            /\ neighbors(Graph, n) = before

\* C17: s(n) ran on a hollow node with two neighbours, and the
\* complementation has changed the edge between them.
W_C17 ==
    /\ last.op = "s" /\ pre.hollow[last.node]
    /\ Cardinality(neighbors(pre, last.node)) = 2
    /\ edges # pre.edges

\* C18: equivalent_fill_node(n), and measure_x, measure_y and measure_z with
\* choice 0 or 1, never end in the ValueError of E1 or E2.  Where n is hollow
\* and loopless and all its neighbours have loops, E1 on the first neighbour
\* leaves n with a loop; where n has a loopless neighbour, E2 is called on n
\* and such a neighbour, an adjacent loopless pair.
T_C18 ==
    (last.op \in Measurements \cup {"fill"}
        /\ (last.op = "fill" \/ Valid(last.choice))) =>
        /\ ~last.err
        /\ last.op = "fill" /\ pre.hollow[last.node] /\ ~pre.loop[last.node]
               /\ neighbors(pre, last.node) # {} =>
               LET n        == last.node
                   loopless == {i \in neighbors(pre, n) : ~pre.loop[i]}
               IN  IF loopless = {}
                   THEN LET r1 == equivalent_graph_e1(pre, First(neighbors(pre, n), last.pick))
                        IN  ~r1.err /\ r1.g.loop[n]
                   ELSE LET i == First(loopless, last.pick)
                        IN  {n, i} \in pre.edges /\ ~pre.loop[n] /\ ~pre.loop[i]

\* C18: a measurement with a valid choice has run on a hollow, loopless node
\* with two neighbours that both have loops (E1 on a neighbour, E1 on n).
W_C18 ==
    /\ last.op \in Measurements /\ Valid(last.choice) /\ ~last.err
    /\ last.op = "measure_z"
    /\ pre.hollow[last.node] /\ ~pre.loop[last.node]
    /\ Cardinality(neighbors(pre, last.node)) = 2
    /\ \A m \in neighbors(pre, last.node) : pre.loop[m]

\* C19: equivalent_graph_e1 is an involution: after equivalent_graph_e1(n) on
\* a node with a loop, n still has its loop, and a second
\* equivalent_graph_e1(n) gives back the graph before the first: the same
\* edges and the same hollow, loop and sign flags on every node.
T_C19 ==
    Returned("e1") =>
        /\ loop[last.node]
        /\ LET again == equivalent_graph_e1(Graph, last.node)
           IN  /\ ~again.err
               /\ again.g.nodes = pre.nodes
               /\ again.g.edges = pre.edges
               /\ again.g.hollow = pre.hollow
               /\ again.g.loop = pre.loop
               /\ again.g.sign = pre.sign

\* C19: equivalent_graph_e1 ran on a node with two neighbours, one with a
\* loop and one without, and changed edges and signs.
W_C19 ==
    /\ Returned("e1")
    /\ \E a \in pre.nodes, b \in pre.nodes :
           /\ a # b /\ {last.node, a} \in pre.edges /\ {last.node, b} \in pre.edges
           /\ pre.loop[a] /\ ~pre.loop[b]
    /\ edges # pre.edges
    /\ \E m \in nodes \ {last.node} : sign[m] # pre.sign[m]

\* C20: equivalent_graph_e2 is symmetric in its arguments: on an adjacent
\* loopless pair, equivalent_graph_e2(a, b) and equivalent_graph_e2(b, a) run
\* on copies of one graph give the same edges and the same hollow, loop and
\* sign flags; the edge a-b is still there and no loop flag has changed.
T_C20 ==
    Returned("e2") =>
        LET swapped == equivalent_graph_e2(pre, last.node2, last.node)
        IN  /\ ~swapped.err
            /\ swapped.g.nodes = nodes
            /\ swapped.g.edges = edges
            /\ swapped.g.hollow = hollow
            /\ swapped.g.loop = loop
            /\ swapped.g.sign = sign
            /\ {last.node, last.node2} \in edges
            /\ loop = pre.loop

\* C20: equivalent_graph_e2(a, b) ran with the sign of a set and that of b
\* not, a third node adjacent to a only, and changed the edges.
W_C20 ==
    /\ Returned("e2")
    /\ pre.sign[last.node] /\ ~pre.sign[last.node2]
    /\ \E m \in pre.nodes : /\ {last.node, m} \in pre.edges
                            /\ {last.node2, m} \notin pre.edges
                            /\ m # last.node2
    /\ edges # pre.edges

\* C21: on a node n with a neighbour and with choice 0 or 1, measure_x and
\* measure_y return choice: the gates applied first (h; s, z, h) leave the
\* neighbours of n as they were, so equivalent_fill_node in the delegated
\* measure_z reports 0 and the outcome is choice.
T_C21 ==
    (last.op \in {"measure_x", "measure_y"} /\ Valid(last.choice)
        /\ \E m \in pre.nodes : {last.node, m} \in pre.edges) =>
        LET n     == last.node
            gated == IF last.op = "measure_x" THEN h(pre, n)
                     ELSE h(z(s(pre, n), n), n)
        IN  /\ ~last.err
            /\ last.ret = last.choice
            /\ {m \in gated.nodes : {n, m} \in gated.edges}
                   = {m \in pre.nodes : {n, m} \in pre.edges}
            /\ equivalent_fill_node(gated, n, last.pick).ret = 0

\* C21: measure_y returned with choice 0 on a hollow node with a loop, its sign
\* set and two neighbours, whose complementation in s changed an edge.
W_C21 ==
    /\ Returned("measure_y") /\ last.choice = 0
    /\ pre.hollow[last.node] /\ pre.loop[last.node] /\ pre.sign[last.node]
    /\ Cardinality({m \in pre.nodes : {last.node, m} \in pre.edges}) = 2
    /\ s(pre, last.node).edges # pre.edges

=============================================================================
